---- MODULE Spec2Model ----
(***************************************************************************)
(* Device Activity Tracker: the web server (src/src/server.ts) with its    *)
(* tracker registry, and the dashboard's socket handlers                   *)
(* (src/unnamed/part_000).  The WhatsAppTracker class (./tracker) is not   *)
(* part of the sources at hand; what the server needs of it is modelled    *)
(* from sections 4.1, 4.2 and 5 of the specification.                      *)
(*                                                                         *)
(* Spec         the server from its start: transport connection and        *)
(*              reconnection, a client connecting, the control surface.    *)
(* SpecSurface  the control surface (add-contact, remove-contact,          *)
(*              set-probe-method) with the transport open and two clients  *)
(*              connected.                                                 *)
(* SpecLoop     the control surface together with the trackers' probing    *)
(*              loops, with the transport open and one client connected.   *)
(* SpecDash     one dashboard handling the events that reach its socket.   *)
(* SpecMethod   clients connecting and changing the probe method, with the *)
(*              'probe-method' notifications to one dashboard in flight.   *)
(***************************************************************************)
EXTENDS Integers, Sequences, FiniteSets, TLC

\* ------------------------------------------------------------------ bounds
MaxSock == 2           \* transports makeWASocket may create
MaxReqs == 2           \* add-contact handler invocations in flight at once
MaxTrackers == 2       \* WhatsAppTracker instances constructed
MaxRounds == 2         \* probe rounds started per tracker
MaxKnownDevices == 2   \* devices a tracker may know after a round
MaxDevices == 2        \* devices listed in one snapshot
MaxClock == 3          \* events one dashboard handles
MaxInbox == 2          \* 'probe-method' notifications in flight to one dashboard

\* ------------------------------------------------------------ value domains
Suffix == "@s.whatsapp.net"
Digits == {"0", "1", "2", "3", "4", "5", "6", "7", "8", "9"}
Numbers == { <<"1">>, <<"+", "1">>, <<"2">> }
Methods == {"delete", "reaction", "standby"}
Sockets == {"a", "b"}
\* The socket of the one dashboard whose state is modelled.  Its handlers are
\* taken to be registered from the moment the socket connects.
Viewer == "d"
ToAll == "*"
NoSocket == ""
NoJid == << >>
NoNumber == << >>
Alice == <<"A", "l", "i", "c", "e">>

EmptyMap == [j \in {} |-> 0]

IsDigit(c) == c \in Digits
\* number.replace(/\D/g, '')
CleanNumber(number) == SelectSeq(number, IsDigit)
\* cleanNumber + '@s.whatsapp.net'
TargetJid(number) == CleanNumber(number) \o << Suffix >>
JIDs == { TargetJid(n) : n \in Numbers }

VARIABLES
  sock,                 \* the transport `sock` refers to: 0 = undefined, n = the n-th makeWASocket
  connState,            \* state of that transport: "none", "connecting", "open", "closed"
  pendingConnect,       \* a connectToWhatsApp() call is awaiting useMultiFileAuthState
  isWhatsAppConnected,
  globalProbeMethod,
  trackers,             \* Map jid -> index into tr, 0 where the map has no entry
  tr,                   \* every WhatsAppTracker constructed so far
  reqs,                 \* the add-contact handler invocations in flight, by slot
  clients,              \* connected socket.io clients
  out,                  \* events emitted by the handler or callback that ran last, in order
  \* --- one dashboard (src/unnamed/part_000)
  contacts,             \* useState<Map<string, ContactInfo>>
  error,                \* useState<string | null>
  probeMethod,          \* useState<ProbeMethod>
  inputNumber,          \* useState('')
  now,                  \* Date.now(), counted in events the dashboard has handled
  \* --- the connection between the server and that dashboard
  inbox                 \* 'probe-method' payloads emitted to Viewer and not yet handled

srv == << sock, connState, pendingConnect, isWhatsAppConnected, globalProbeMethod,
          trackers, tr, reqs, clients, out >>
dash == << contacts, error, probeMethod, inputNumber, now >>
vars == << srv, dash, inbox >>

\* One emitted event.  `to` is the receiving socket, or ToAll for io.emit;
\* chars is the number or name of the payload, arg its message, url or method.
\* tracker and round record which tracker callback produced the event; they
\* are not part of the payload.
Msg(ev, to, jid, chars, arg, tracker, round) ==
  [ev |-> ev, to |-> to, jid |-> jid, chars |-> chars, arg |-> arg,
   tracker |-> tracker, round |-> round]

\* ------------------------------------------------- WhatsAppTracker (./tracker)
\* No round in flight.
NoRound == << >>

\* new WhatsAppTracker(sock, jid): Idle, bound to the transport it was given.
\* `emitted` is history: how many snapshots the tracker has handed to onUpdate.
\* `calls` is history: what the server did to the tracker while it was Idle,
\* and every startTracking and stopTracking call whenever made.
NewTracker(s, jid) ==
  [jid |-> jid, sock |-> s, probeMethod |-> "delete", onUpdate |-> FALSE,
   state |-> "Idle", round |-> 0, flight |-> NoRound, devices |-> 0, emitted |-> 0,
   calls |-> << >>]

\* tracker.setProbeMethod(method): a pure assignment of the active strategy.
TrackerSetProbeMethod(t, method) ==
  [t EXCEPT !.probeMethod = method,
            !.calls = IF t.state = "Idle" THEN Append(@, "setProbeMethod") ELSE @]

\* tracker.startTracking(): Idle -> Tracking.
StartTracking(t) ==
  [t EXCEPT !.state = "Tracking", !.calls = Append(@, "startTracking")]

\* tracker.stopTracking(): -> Stopped; an in-flight round resolves without emitting.
StopTracking(t) ==
  [t EXCEPT !.state = "Stopped", !.flight = NoRound, !.calls = Append(@, "stopTracking")]

\* The strategy a round reads when it starts.
RoundMethod(t) == t.probeMethod

\* Variant: each probe reads the tracker's strategy when it is dispatched.
DispatchMethodLive(t) == t.probeMethod

\* The strategy a probe of the round in flight is dispatched with: the one
\* the round read when it started.
DispatchMethod(t) == t.flight[1].method

\* Probes one round dispatches: one per known device, or one platform-level
\* probe when no device is known yet.
Targets(t) == IF t.devices = 0 THEN 1 ELSE t.devices

\* ------------------------------------------------------------------ server
Has(jid) == trackers[jid] # 0
Keys == { j \in JIDs : Has(j) }
Registered(i) == \E j \in JIDs : trackers[j] = i
\* An emitted 'probe-method' that reaches the Viewer's socket: socket.emit on
\* that socket, or io.emit while it is connected.
ForViewer(m) ==
  /\ m.ev = "probe-method"
  /\ m.to = Viewer \/ (m.to = ToAll /\ Viewer \in clients)

\* The 'probe-method' payloads among msgs that go to the Viewer, in order.
ViewerNotes(msgs) ==
  LET hits == SelectSeq(msgs, ForViewer)
  IN [k \in DOMAIN hits |-> hits[k].arg]

\* socket.emit / io.emit: socket.io delivers the events of one connection in
\* the order they were emitted.
Emit(msgs) ==
  /\ out' = msgs
  /\ inbox' = inbox \o ViewerNotes(msgs)

\* A slot of reqs that holds no handler invocation.
Free ==
  [socket |-> NoSocket, number |-> NoNumber, targetJid |-> NoJid, pc |-> "free",
   via |-> 0, jid |-> NoJid, tracker |-> 0, ppUrl |-> "null"]
Slots == 1 .. MaxReqs

\* The dashboard as mounted: the useState initial values.
DashInit ==
  /\ contacts = EmptyMap
  /\ error = "null"
  /\ probeMethod = "delete"
  /\ inputNumber = ""
  /\ now = 0

Init ==
  /\ DashInit
  /\ sock = 0
  /\ connState = "none"
  /\ pendingConnect = TRUE
  /\ isWhatsAppConnected = FALSE
  /\ globalProbeMethod = "delete"
  /\ trackers = [j \in JIDs |-> 0]
  /\ tr = << >>
  /\ reqs = [r \in Slots |-> Free]
  /\ clients = {}
  /\ out = << >>
  /\ inbox = << >>

\* connectToWhatsApp(), after its await: sock = makeWASocket(...)
MakeSocket ==
  /\ pendingConnect
  /\ sock < MaxSock
  /\ sock' = sock + 1
  /\ connState' = "connecting"
  /\ pendingConnect' = FALSE
  /\ Emit(<< >>)
  /\ UNCHANGED << isWhatsAppConnected, globalProbeMethod, trackers, tr, reqs, clients >>
  /\ UNCHANGED dash

\* sock.ev.on('connection.update') of the current transport.
ConnectionUpdate(qr, connection, loggedOut) ==
  /\ connState \in {"connecting", "open"}
  /\ qr \/ connection # "undefined"
  /\ qr => connState = "connecting" /\ connection = "undefined"
  /\ connection = "open" => connState = "connecting"
  /\ loggedOut => connection = "close"
  /\ LET shouldReconnect == ~loggedOut
         qrMsgs == IF qr THEN << Msg("qr", ToAll, NoJid, NoNumber, "", 0, 0) >> ELSE << >>
         openMsgs == IF connection = "open"
                     THEN << Msg("connection-open", ToAll, NoJid, NoNumber, "", 0, 0) >>
                     ELSE << >>
     IN /\ Emit(qrMsgs \o openMsgs)
        /\ isWhatsAppConnected' = IF connection = "close" THEN FALSE
                                  ELSE IF connection = "open" THEN TRUE
                                  ELSE isWhatsAppConnected
        /\ pendingConnect' = IF connection = "close" /\ shouldReconnect THEN TRUE ELSE pendingConnect
        /\ connState' = IF connection = "close" THEN "closed"
                        ELSE IF connection = "open" THEN "open" ELSE connState
  /\ UNCHANGED << sock, globalProbeMethod, trackers, tr, reqs, clients >>
  /\ UNCHANGED dash

\* io.on('connection'): the greeting sent to a new client.
ClientConnect(s) ==
  /\ s \notin clients
  /\ clients' = clients \cup {s}
  /\ LET openMsgs == IF isWhatsAppConnected
                     THEN << Msg("connection-open", s, NoJid, NoNumber, "", 0, 0) >>
                     ELSE << >>
         greet == << Msg("probe-method", s, NoJid, NoNumber, globalProbeMethod, 0, 0),
                     Msg("tracked-contacts", s, NoJid, NoNumber, "", 0, 0) >>
     IN Emit(openMsgs \o greet)
  /\ UNCHANGED << sock, connState, pendingConnect, isWhatsAppConnected, globalProbeMethod,
                  trackers, tr, reqs >>
  /\ UNCHANGED dash

\* Variant: the failure is broadcast with io.emit.
VerifyFailMsgsBroadcast(socket, targetJid, message) ==
  << Msg("error", ToAll, targetJid, NoNumber, message, 0, 0) >>

\* What the 'add-contact' handler emits when verification fails:
\* socket.emit('error', { jid: targetJid, message }).
VerifyFailMsgs(socket, targetJid, message) ==
  << Msg("error", socket, targetJid, NoNumber, message, 0, 0) >>

\* Variant: the duplicate check is missing.
AlreadyTrackingNever(targetJid) == FALSE

\* trackers.has(targetJid)
AlreadyTracking(targetJid) == Has(targetJid)

\* socket.on('add-contact'), up to the first await (or the early return).
\* An invocation that reaches the await takes the lowest free slot of reqs.
AddContact(s, number) ==
  /\ s \in clients
  /\ LET cleanNumber == CleanNumber(number)
         targetJid == TargetJid(number)
     IN IF AlreadyTracking(targetJid)
        THEN /\ Emit(<< Msg("error", s, targetJid, NoNumber,
                            "Already tracking this contact", 0, 0) >>)
             /\ UNCHANGED reqs
        ELSE IF sock = 0
        THEN \* sock is undefined: sock.onWhatsApp throws a TypeError inside the try
             /\ Emit(VerifyFailMsgs(s, targetJid, "Verification failed"))
             /\ UNCHANGED reqs
        ELSE \E r \in Slots :
               /\ reqs[r].pc = "free"
               /\ \A q \in Slots : q < r => reqs[q].pc # "free"
               /\ reqs' = [reqs EXCEPT ![r] =
                            [socket |-> s, number |-> cleanNumber, targetJid |-> targetJid,
                             pc |-> "verify", via |-> sock, jid |-> NoJid, tracker |-> 0,
                             ppUrl |-> "null"]]
               /\ Emit(<< >>)
  /\ UNCHANGED << sock, connState, pendingConnect, isWhatsAppConnected, globalProbeMethod,
                  trackers, tr, clients >>
  /\ UNCHANGED dash

\* Variant: the tracker keeps the method it was constructed with.
RegisteredMethodDefault == "delete"

\* The probe method a tracker is given before it is registered:
\* tracker.setProbeMethod(globalProbeMethod).
RegisteredMethod == globalProbeMethod

\* tracker.onUpdate = (data) => { io.emit('tracker-update', ...) }
AssignOnUpdate(t) ==
  [t EXCEPT !.onUpdate = TRUE,
            !.calls = IF t.state = "Idle" THEN Append(@, "onUpdate") ELSE @]

\* Variant: the tracker is started before its observer is assigned.
StartedTrackerUnobserved(s, jid) ==
  AssignOnUpdate(StartTracking(TrackerSetProbeMethod(NewTracker(s, jid), RegisteredMethod)))

\* The tracker the 'add-contact' handler has built when it reaches its second
\* await: constructed, given the probe method, given its observer, started.
StartedTracker(s, jid) ==
  StartTracking(AssignOnUpdate(TrackerSetProbeMethod(NewTracker(s, jid), RegisteredMethod)))

\* The outcomes of `await sock.onWhatsApp(targetJid)`: it throws, or yields a
\* list of results.
VerifyReplies ==
  { [throws |-> TRUE, results |-> << >>] } \cup
  { [throws |-> FALSE, results |-> rs] :
      rs \in { << >> } \cup { << [exists |-> e, jid |-> j] >> : e \in BOOLEAN, j \in JIDs } }

\* result?.exists
Exists(reply) == ~reply.throws /\ reply.results # << >> /\ reply.results[1].exists

\* The transport a query was sent over is `sock` and it is open.
Answering(via) == via = sock /\ connState = "open"

\* The 'add-contact' handler from the first await to the second one (or to
\* its end, when verification fails).  The query is answered only over an
\* open transport; otherwise it throws.
VerifyReply(r, reply) ==
  /\ reqs[r].pc = "verify"
  /\ ~reply.throws => Answering(reqs[r].via)
  /\ IF reply.throws
     THEN /\ reqs' = [reqs EXCEPT ![r] = Free]
          /\ Emit(VerifyFailMsgs(reqs[r].socket, reqs[r].targetJid, "Verification failed"))
          /\ UNCHANGED << trackers, tr >>
     ELSE IF Exists(reply)
     THEN LET jid == reply.results[1].jid
              id == Len(tr) + 1
              tracker == StartedTracker(sock, jid)
          IN /\ Len(tr) < MaxTrackers
             /\ tr' = Append(tr, tracker)
             /\ trackers' = [trackers EXCEPT ![jid] = id]
             /\ reqs' = [reqs EXCEPT ![r].pc = "pic", ![r].via = sock, ![r].jid = jid,
                                     ![r].tracker = id]
             /\ Emit(<< >>)
     ELSE /\ reqs' = [reqs EXCEPT ![r] = Free]
          /\ Emit(VerifyFailMsgs(reqs[r].socket, reqs[r].targetJid, "Number not on WhatsApp"))
          /\ UNCHANGED << trackers, tr >>
  /\ UNCHANGED << sock, connState, pendingConnect, isWhatsAppConnected, globalProbeMethod,
                  clients >>
  /\ UNCHANGED dash

\* `await tracker.getProfilePicture()` resolves to a url or null; then
\* sock.onWhatsApp(result.jid) is called.
ProfilePicReply(r, url) ==
  /\ reqs[r].pc = "pic"
  /\ url # "null" => Answering(reqs[r].via)
  /\ reqs' = [reqs EXCEPT ![r].pc = "name", ![r].via = sock, ![r].ppUrl = url]
  /\ Emit(<< >>)
  /\ UNCHANGED << sock, connState, pendingConnect, isWhatsAppConnected, globalProbeMethod,
                  trackers, tr, clients >>
  /\ UNCHANGED dash

\* The second `await sock.onWhatsApp(result.jid)`: it throws (caught), or
\* yields contact info with or without a notify name; then the handler ends.
NameReply(r, notify) ==
  /\ reqs[r].pc = "name"
  /\ notify # << >> => Answering(reqs[r].via)
  /\ LET rq == reqs[r]
         contactName == IF notify # << >> THEN notify ELSE rq.number
     IN Emit(<< Msg("contact-added", rq.socket, rq.jid, rq.number, "", 0, 0),
                Msg("profile-pic", ToAll, rq.jid, NoNumber, rq.ppUrl, 0, 0),
                Msg("contact-name", ToAll, rq.jid, contactName, "", 0, 0) >>)
  /\ reqs' = [reqs EXCEPT ![r] = Free]
  /\ UNCHANGED << sock, connState, pendingConnect, isWhatsAppConnected, globalProbeMethod,
                  trackers, tr, clients >>
  /\ UNCHANGED dash

\* Variant: a removal that finds no tracker is reported to the requester.
RemoveMissMsgsError(s, jid) ==
  << Msg("error", s, jid, NoNumber, "Not tracking this contact", 0, 0) >>

\* What 'remove-contact' emits when trackers.get(jid) is undefined: nothing
\* (`if (tracker)` has no else branch).
RemoveMissMsgs(s, jid) == << >>

\* socket.on('remove-contact')
RemoveContact(s, jid) ==
  /\ s \in clients
  /\ IF Has(jid)
     THEN /\ tr' = [tr EXCEPT ![trackers[jid]] = StopTracking(@)]
          /\ trackers' = [trackers EXCEPT ![jid] = 0]
          /\ Emit(<< Msg("contact-removed", s, jid, NoNumber, "", 0, 0) >>)
     ELSE /\ Emit(RemoveMissMsgs(s, jid))
          /\ UNCHANGED << tr, trackers >>
  /\ UNCHANGED << sock, connState, pendingConnect, isWhatsAppConnected, globalProbeMethod,
                  reqs, clients >>
  /\ UNCHANGED dash

\* Variant: only a missing method is rejected.
InvalidMethodOnlyEmpty(method) == method = ""

\* method !== 'delete' && method !== 'reaction'
InvalidMethod(method) == method # "delete" /\ method # "reaction"

\* Variant: the change is acknowledged to the requesting socket only.
ProbeMethodMsgsToRequester(s, method) ==
  << Msg("probe-method", s, NoJid, NoNumber, method, 0, 0) >>

\* io.emit('probe-method', method)
ProbeMethodMsgs(s, method) ==
  << Msg("probe-method", ToAll, NoJid, NoNumber, method, 0, 0) >>

\* socket.on('set-probe-method')
SetProbeMethod(s, method) ==
  /\ s \in clients
  /\ IF InvalidMethod(method)
     THEN /\ Emit(<< Msg("error", s, NoJid, NoNumber, "Invalid probe method", 0, 0) >>)
          /\ UNCHANGED << globalProbeMethod, tr >>
     ELSE /\ globalProbeMethod' = method
          /\ tr' = [i \in DOMAIN tr |->
                      IF Registered(i) THEN TrackerSetProbeMethod(tr[i], method) ELSE tr[i]]
          /\ Emit(ProbeMethodMsgs(s, method))
  /\ UNCHANGED << sock, connState, pendingConnect, isWhatsAppConnected, trackers, reqs,
                  clients >>
  /\ UNCHANGED dash

\* tracker.onUpdate = (data) => io.emit('tracker-update', { jid: result.jid, ...data })
OnUpdate(i) == << Msg("tracker-update", ToAll, tr[i].jid, NoNumber, "", i, tr[i].round) >>

\* ------------------------------------------------ the tracker's probing loop
TransportUp(t) == t.sock = sock /\ connState = "open"

\* A tick of the interval loop starts a round; the round reads the active strategy.
Tick(i) ==
  /\ i \in DOMAIN tr
  /\ tr[i].state = "Tracking" /\ tr[i].flight = NoRound
  /\ tr[i].round < MaxRounds
  /\ TransportUp(tr[i])
  /\ tr' = [tr EXCEPT ![i].round = @ + 1,
                      ![i].flight = << [method |-> RoundMethod(tr[i]), sent |-> << >>] >>]
  /\ Emit(<< >>)
  /\ UNCHANGED << sock, connState, pendingConnect, isWhatsAppConnected, globalProbeMethod,
                  trackers, reqs, clients >>
  /\ UNCHANGED dash

\* One probe of the round in flight is dispatched.
Dispatch(i) ==
  /\ i \in DOMAIN tr
  /\ tr[i].flight # NoRound
  /\ Len(tr[i].flight[1].sent) < Targets(tr[i])
  /\ tr' = [tr EXCEPT ![i].flight[1].sent = Append(@, DispatchMethod(tr[i]))]
  /\ Emit(<< >>)
  /\ UNCHANGED << sock, connState, pendingConnect, isWhatsAppConnected, globalProbeMethod,
                  trackers, reqs, clients >>
  /\ UNCHANGED dash

\* The round's deadline passes with n devices having answered: the snapshot
\* is handed to onUpdate once.
CompleteRound(i, n) ==
  /\ i \in DOMAIN tr
  /\ tr[i].state = "Tracking" /\ tr[i].flight # NoRound
  /\ Len(tr[i].flight[1].sent) = Targets(tr[i])
  /\ tr' = [tr EXCEPT ![i].flight = NoRound, ![i].devices = n,
                      ![i].emitted = IF tr[i].onUpdate THEN @ + 1 ELSE @]
  /\ Emit(IF tr[i].onUpdate THEN OnUpdate(i) ELSE << >>)
  /\ UNCHANGED << sock, connState, pendingConnect, isWhatsAppConnected, globalProbeMethod,
                  trackers, reqs, clients >>
  /\ UNCHANGED dash

\* ------------------------------------------------ dashboard (part_000)
\* An absent (undefined) field is the empty tuple, a present one holds its value.
Undefined == << >>
Def(x) == << x >>
Val(o) == o[1]

Put(m, k, v) == [x \in DOMAIN m \cup {k} |-> IF x = k THEN v ELSE m[x]]
Delete(m, k) == [x \in DOMAIN m \ {k} |-> m[x]]

\* Variant: an event for a jid without an entry creates an empty entry.
SetContactOrCreate(m, k, v) ==
  IF k \in DOMAIN m
  THEN [m EXCEPT ![k] = v]
  ELSE Put(m, k, [jid |-> k, displayNumber |-> k, contactName |-> k, data |-> << >>,
                  devices |-> << >>, deviceCount |-> 0, presence |-> "null",
                  profilePic |-> "null"])

\* const contact = next.get(k); if (contact) { next.set(k, v) }
SetContact(m, k, v) == IF k \in DOMAIN m THEN [m EXCEPT ![k] = v] ELSE m

DeviceStates == {"Online", "Offline", "Unknown"}

\* DeviceInfo of the k-th device of a snapshot, in state st.
Device(k, st) ==
  LET rtt == IF st = "Online" THEN 120 ELSE IF st = "Offline" THEN 900 ELSE 0
  IN [jid |-> k, state |-> st, rtt |-> rtt, avg |-> rtt]

DeviceLists ==
  { [k \in DOMAIN f |-> Device(k, f[k])] :
      f \in UNION { [1 .. m -> DeviceStates] : m \in 0 .. MaxDevices } }

\* The payloads of 'tracker-update': a full snapshot, an update that carries
\* the presence only, each for a jid or with the jid missing.
Snapshots ==
  { [jid |-> j, presence |-> Def(p), deviceCount |-> Def(Len(ds)), devices |-> Def(ds),
     median |-> Def(300), threshold |-> Def(400)] :
      j \in JIDs \cup {NoJid}, p \in {"null", "available"}, ds \in DeviceLists }
PresenceUpdates ==
  { [jid |-> j, presence |-> Def("available"), deviceCount |-> Undefined,
     devices |-> Undefined, median |-> Undefined, threshold |-> Undefined] : j \in JIDs }
Updates == Snapshots \cup PresenceUpdates

\* d.state.includes('Online'): of the three state labels only "Online" contains it.
IncludesOnline(st) == st = "Online"

\* data.devices.find(d => d.state.includes('Online'))?.state || data.devices[0].state
HeadlineState(devices) ==
  LET hits == { k \in DOMAIN devices : IncludesOnline(devices[k].state) }
  IN IF hits # {}
     THEN devices[CHOOSE k \in hits : \A l \in hits : k <= l].state
     ELSE devices[1].state

\* data.median !== undefined && data.devices && data.devices.length > 0
AddsDataPoint(data) ==
  data.median # Undefined /\ data.devices # Undefined /\ Len(Val(data.devices)) > 0

\* Variant: a round without devices is charted as an "Unknown" point.
NewDataPointsAlways(data, t) ==
  IF data.median = Undefined \/ data.devices = Undefined THEN << >>
  ELSE LET devices == Val(data.devices)
       IN IF Len(devices) > 0
          THEN << [rtt |-> devices[1].rtt, avg |-> devices[1].avg,
                   median |-> data.median, threshold |-> data.threshold,
                   state |-> HeadlineState(devices), timestamp |-> t] >>
          ELSE << [rtt |-> 0, avg |-> 0, median |-> data.median,
                   threshold |-> data.threshold, state |-> "Unknown", timestamp |-> t] >>

\* "Add to chart data": the points appended to updatedContact.data.
NewDataPoints(data, t) ==
  IF AddsDataPoint(data)
  THEN LET devices == Val(data.devices)
       IN << [rtt |-> devices[1].rtt, avg |-> devices[1].avg,
              median |-> data.median, threshold |-> data.threshold,
              state |-> HeadlineState(devices), timestamp |-> t] >>
  ELSE << >>

\* The contact entry onTrackerUpdate stores for `contact` on payload `data` at time t.
UpdatedContact(contact, data, t) ==
  LET c1 == IF data.presence # Undefined
            THEN [contact EXCEPT !.presence = Val(data.presence)] ELSE contact
      c2 == IF data.deviceCount # Undefined
            THEN [c1 EXCEPT !.deviceCount = Val(data.deviceCount)] ELSE c1
      c3 == IF data.devices # Undefined
            THEN [c2 EXCEPT !.devices = Val(data.devices)] ELSE c2
  IN [c3 EXCEPT !.data = @ \o NewDataPoints(data, t)]

\* socket.on('tracker-update', onTrackerUpdate)
OnTrackerUpdate(update) ==
  /\ now < MaxClock
  /\ now' = now + 1
  /\ contacts' = IF update.jid # NoJid
                 THEN SetContact(contacts, update.jid,
                                 UpdatedContact(contacts[update.jid], update, now'))
                 ELSE contacts
  /\ UNCHANGED << error, probeMethod, inputNumber >>
  /\ UNCHANGED << srv, inbox >>

\* socket.on('profile-pic', onProfilePic)
OnProfilePic(data) ==
  /\ now < MaxClock
  /\ now' = now + 1
  /\ contacts' = SetContact(contacts, data.jid,
                            [contacts[data.jid] EXCEPT !.profilePic = data.url])
  /\ UNCHANGED << error, probeMethod, inputNumber >>
  /\ UNCHANGED << srv, inbox >>

\* socket.on('contact-name', onContactName)
OnContactName(data) ==
  /\ now < MaxClock
  /\ now' = now + 1
  /\ contacts' = SetContact(contacts, data.jid,
                            [contacts[data.jid] EXCEPT !.contactName = data.name])
  /\ UNCHANGED << error, probeMethod, inputNumber >>
  /\ UNCHANGED << srv, inbox >>

\* socket.on('contact-added', onContactAdded)
OnContactAdded(data) ==
  /\ now < MaxClock
  /\ now' = now + 1
  /\ contacts' = Put(contacts, data.jid,
                     [jid |-> data.jid, displayNumber |-> data.number,
                      contactName |-> data.number, data |-> << >>, devices |-> << >>,
                      deviceCount |-> 0, presence |-> "null", profilePic |-> "null"])
  /\ inputNumber' = ""
  /\ UNCHANGED << error, probeMethod >>
  /\ UNCHANGED << srv, inbox >>

\* socket.on('contact-removed', onContactRemoved)
OnContactRemoved(jid) ==
  /\ now < MaxClock
  /\ now' = now + 1
  /\ contacts' = Delete(contacts, jid)
  /\ UNCHANGED << error, probeMethod, inputNumber >>
  /\ UNCHANGED << srv, inbox >>

\* socket.on('error', onError)
OnError(data) ==
  /\ now < MaxClock
  /\ now' = now + 1
  /\ error' = data.message
  /\ UNCHANGED << contacts, probeMethod, inputNumber >>
  /\ UNCHANGED << srv, inbox >>

\* setTimeout(() => setError(null), 3000)
ErrorTimeout ==
  /\ error # "null"
  /\ error' = "null"
  /\ UNCHANGED << contacts, probeMethod, inputNumber, now >>
  /\ UNCHANGED << srv, inbox >>

\* socket.on('probe-method', onProbeMethod).  Where the event comes from, and
\* so what becomes of inbox, is for the step that hands it over to say.
OnProbeMethod(method) ==
  /\ now < MaxClock
  /\ now' = now + 1
  /\ probeMethod' = method
  /\ UNCHANGED << contacts, error, inputNumber >>
  /\ UNCHANGED srv

\* The oldest 'probe-method' in flight to the Viewer arrives and is handled.
DeliverProbeMethod ==
  /\ inbox # << >>
  /\ OnProbeMethod(Head(inbox))
  /\ inbox' = Tail(inbox)

\* onChange={(e) => setInputNumber(e.target.value)}
SetInputNumber(value) ==
  /\ inputNumber # value
  /\ inputNumber' = value
  /\ UNCHANGED << contacts, error, probeMethod, now >>
  /\ UNCHANGED << srv, inbox >>

\* -------------------------------------------------------------- behaviours
\* The server from its start, with one client.
Next ==
  \/ MakeSocket
  \/ \E qr \in BOOLEAN, c \in {"undefined", "open", "close"}, lo \in BOOLEAN :
       ConnectionUpdate(qr, c, lo)
  \/ ClientConnect("a")
  \/ AddContact("a", <<"1">>)
  \/ \E r \in Slots, reply \in VerifyReplies : VerifyReply(r, reply)
  \/ \E r \in Slots, url \in {"null", "url"} : ProfilePicReply(r, url)
  \/ \E r \in Slots, notify \in {<< >>, Alice} : NameReply(r, notify)
  \/ \E j \in JIDs : RemoveContact("a", j)
  \/ \E m \in Methods : SetProbeMethod("a", m)

Spec == Init /\ [][Next]_vars

\* The server once its first transport is open and the clients in cs are connected.
Serving(cs) ==
  /\ DashInit
  /\ sock = 1
  /\ connState = "open"
  /\ pendingConnect = FALSE
  /\ isWhatsAppConnected = TRUE
  /\ globalProbeMethod = "delete"
  /\ trackers = [j \in JIDs |-> 0]
  /\ tr = << >>
  /\ reqs = [r \in Slots |-> Free]
  /\ clients = cs
  /\ out = << >>
  /\ inbox = << >>

InitSurface == Serving(Sockets)

NextSurface ==
  \/ \E s \in Sockets, n \in Numbers : AddContact(s, n)
  \/ \E r \in Slots, reply \in VerifyReplies : VerifyReply(r, reply)
  \/ \E r \in Slots, url \in {"null", "url"} : ProfilePicReply(r, url)
  \/ \E r \in Slots, notify \in {<< >>, Alice} : NameReply(r, notify)
  \/ \E s \in Sockets, j \in JIDs : RemoveContact(s, j)
  \/ \E s \in Sockets, m \in Methods : SetProbeMethod(s, m)

SpecSurface == InitSurface /\ [][NextSurface]_vars

InitLoop == Serving({"a"})

\* The replies that confirm the jid that was asked for, or no account.
PlainReplies == { reply \in VerifyReplies : Exists(reply) => reply.results[1].jid = TargetJid(<<"1">>) }

NextLoop ==
  \/ \E n \in {<<"1">>, <<"+", "1">>} : AddContact("a", n)
  \/ \E r \in Slots, reply \in PlainReplies : VerifyReply(r, reply)
  \/ \E r \in Slots : ProfilePicReply(r, "url")
  \/ \E r \in Slots : NameReply(r, Alice)
  \/ \E j \in JIDs : RemoveContact("a", j)
  \/ \E m \in Methods : SetProbeMethod("a", m)
  \/ \E i \in 1 .. MaxTrackers : Tick(i)
  \/ \E i \in 1 .. MaxTrackers : Dispatch(i)
  \/ \E i \in 1 .. MaxTrackers, n \in 0 .. MaxKnownDevices : CompleteRound(i, n)

SpecLoop == InitLoop /\ [][NextLoop]_vars

\* One dashboard, handling whatever events reach its socket.
NextDash ==
  \/ \E u \in Updates : OnTrackerUpdate(u)
  \/ \E j \in JIDs, url \in {"null", "url"} : OnProfilePic([jid |-> j, url |-> url])
  \/ \E j \in JIDs : OnContactName([jid |-> j, name |-> Alice])
  \/ \E n \in Numbers : OnContactAdded([jid |-> TargetJid(n), number |-> CleanNumber(n)])
  \/ \E j \in JIDs : OnContactRemoved(j)
  \/ OnError([message |-> "Invalid probe method"])
  \/ ErrorTimeout
  \/ \E m \in {"delete", "reaction"} : OnProbeMethod(m) /\ UNCHANGED inbox
  \/ \E v \in {"", "1"} : SetInputNumber(v)

SpecDash == Init /\ [][NextDash]_vars

\* Clients, the Viewer among them, connect and change the probe method while
\* the Viewer's dashboard handles the notifications that reach it.
NextMethod ==
  \/ \E s \in Sockets \cup {Viewer} : ClientConnect(s)
  \/ \E s \in Sockets \cup {Viewer}, m \in Methods :
       Len(inbox) < MaxInbox /\ SetProbeMethod(s, m)
  \/ DeliverProbeMethod

SpecMethod == Init /\ [][NextMethod]_vars

\* ------------------------------------------------------------------ claims
IsUpdate(m) == m.ev = "tracker-update"

\* C1: in every reachable state each contact jid has at most one tracker that
\* was started and not stopped, and that tracker is the one the registry
\* holds under the jid.
C1_OneTrackerPerContact ==
  \A i \in DOMAIN tr :
    tr[i].state = "Tracking" => trackers[tr[i].jid] = i

\* C2: once remove-contact has stopped and removed the tracker of a jid, no
\* 'tracker-update' with that jid is emitted by a tracker that already
\* existed at the removal (i2 was constructed no earlier than the emitting
\* tracker, and only remove-contact stops a tracker).
C2_NoUpdateAfterRemove ==
  \A k \in DOMAIN out :
    IsUpdate(out[k]) =>
      ~ \E i2 \in DOMAIN tr :
          /\ i2 >= out[k].tracker
          /\ tr[i2].jid = out[k].jid
          /\ tr[i2].state = "Stopped"

\* C3: once the transport has been closed and a new connection is open, every
\* tracker in the registry probes over the transport `sock` now refers to.
C3_TrackersUseCurrentTransport ==
  (sock > 1 /\ isWhatsAppConnected) =>
     \A j \in Keys : tr[trackers[j]].sock = sock

\* C4: when the verification of an add-contact request fails (it throws, or no
\* result exists), the handler emits exactly one event, an 'error' to the
\* requesting socket, constructs no tracker, leaves the registry unchanged and
\* returns, so that no 'contact-added' follows for the request.
C4_VerificationFailure ==
  [][\A r \in Slots, reply \in VerifyReplies :
       (~Exists(reply) /\ VerifyReply(r, reply)) =>
          /\ Len(out') = 1
          /\ out'[1].ev = "error"
          /\ out'[1].to = reqs[r].socket
          /\ trackers' = trackers
          /\ tr' = tr
          /\ reqs'[r] = Free]_vars

\* A verification has just failed for a request of client "b" while a contact is tracked.
C4_Witness ==
  /\ Len(out) = 1
  /\ out[1].ev = "error"
  /\ out[1].arg = "Number not on WhatsApp"
  /\ out[1].to = "b"
  /\ Keys # {}

\* C5: a set-probe-method request with a method other than 'delete' and
\* 'reaction' emits one 'error' to the requesting socket, and changes neither
\* globalProbeMethod nor any tracker; no 'probe-method' is broadcast.
C5_InvalidProbeMethod ==
  [][\A s \in Sockets, m \in Methods :
       (m \notin {"delete", "reaction"} /\ SetProbeMethod(s, m)) =>
          /\ Len(out') = 1
          /\ out'[1].ev = "error"
          /\ out'[1].to = s
          /\ globalProbeMethod' = globalProbeMethod
          /\ tr' = tr]_vars

\* An invalid method has just been rejected for client "b" while a contact is
\* tracked with the method 'reaction'.
C5_Witness ==
  /\ Len(out) = 1
  /\ out[1].arg = "Invalid probe method"
  /\ out[1].to = "b"
  /\ globalProbeMethod = "reaction"
  /\ \E j \in Keys : tr[trackers[j]].probeMethod = "reaction"

\* C6: between event handlers, every tracker in the registry has the probe
\* method globalProbeMethod.
C6_RegisteredTrackersUseGlobalMethod ==
  \A j \in Keys : tr[trackers[j]].probeMethod = globalProbeMethod

\* Two contacts are tracked with 'reaction', one of them registered by an
\* add-contact invocation that is still in flight.
C6_Witness ==
  /\ Keys = JIDs
  /\ globalProbeMethod = "reaction"
  /\ \E r \in Slots : reqs[r].pc = "pic" /\ tr[reqs[r].tracker].probeMethod = "reaction"

\* C7: the 'tracker-update' emissions of one contact are those of one probing
\* loop, one per completed round and in round order: the emission of a
\* tracker's n-th completed round is its n-th emission, and when a tracker emits
\* for a jid every other tracker that has emitted for that jid has stopped.
C7_OneOrderedStreamPerContact ==
  \A k \in DOMAIN out :
    IsUpdate(out[k]) =>
      /\ out[k].round = tr[out[k].tracker].emitted
      /\ \A i2 \in DOMAIN tr \ {out[k].tracker} :
           (tr[i2].jid = out[k].jid /\ tr[i2].emitted > 0) => tr[i2].state = "Stopped"

AggregateState(devices) ==
  IF \E k \in DOMAIN devices : devices[k].state = "Online" THEN "Online"
  ELSE IF \E k \in DOMAIN devices : devices[k].state = "Offline" THEN "Offline"
  ELSE "Unknown"

\* C9: the data point the dashboard records for a snapshot with a non-empty
\* device list has the state Online if any device is Online, else Offline if
\* any device is Offline, else Unknown.
C9_HeadlineIsAggregate ==
  [][\A u \in Updates :
       (/\ OnTrackerUpdate(u)
        /\ u.jid \in DOMAIN contacts
        /\ u.devices # Undefined
        /\ Len(contacts'[u.jid].data) = Len(contacts[u.jid].data) + 1) =>
          contacts'[u.jid].data[Len(contacts'[u.jid].data)].state
            = AggregateState(Val(u.devices))]_vars

\* C10: a snapshot with zero devices for a known contact sets deviceCount to 0
\* and the device list to empty and leaves the contact's data as it was.
C10_ZeroDevicesAddNoPoint ==
  [][\A u \in Updates :
       (/\ u.deviceCount = Def(0)
        /\ u.devices = Def(<< >>)
        /\ u.jid \in DOMAIN contacts
        /\ OnTrackerUpdate(u)) =>
          /\ contacts'[u.jid].deviceCount = 0
          /\ contacts'[u.jid].devices = << >>
          /\ contacts'[u.jid].data = contacts[u.jid].data]_vars

\* A contact with a recorded point has received a snapshot without devices.
C10_Witness ==
  \E j \in DOMAIN contacts :
    /\ contacts[j].deviceCount = 0
    /\ contacts[j].devices = << >>
    /\ Len(contacts[j].data) = 1
    /\ contacts[j].data[1].timestamp < now

\* C11: a remove-contact for a jid leaves the registry without an entry for
\* it, and a remove-contact for a jid the registry has no entry for (so the
\* second of two removals in succession) is a no-op: it emits nothing, stops
\* no tracker and leaves the registry and the requests in flight as they were.
C11_SecondRemoveIsNoOp ==
  [][\A s \in Sockets, j \in JIDs :
       RemoveContact(s, j) =>
          /\ trackers'[j] = 0
          /\ trackers[j] = 0 =>
                /\ out' = << >>
                /\ tr' = tr
                /\ trackers' = trackers
                /\ reqs' = reqs]_vars

\* Every jid has had its tracker stopped and removed, no add-contact is in
\* flight and the handler that ran last emitted nothing: with every tracker
\* stopped and no request in flight only a remove-contact that found no
\* tracker ends a step that way, and its jid was removed before.
C11_Witness ==
  /\ out = << >>
  /\ Keys = {}
  /\ \A r \in Slots : reqs[r].pc = "free"
  /\ \A j \in JIDs : \E i \in DOMAIN tr : tr[i].jid = j /\ tr[i].state = "Stopped"
  /\ \A i \in DOMAIN tr : tr[i].state = "Stopped"

\* C12: every tracker goes Idle -> Tracking -> Stopped and nothing else.  After
\* every step each tracker has been given its probe method, then its observer,
\* then started, exactly once each and in that order, and has been stopped at
\* most once, after the start; it is Stopped exactly if it was stopped; a
\* stopped tracker stays as it is; and the registry holds started, unstopped
\* trackers only.
C12_TrackerLifecycle ==
  [][/\ \A i \in DOMAIN tr' :
          /\ tr'[i].calls \in
                { << "setProbeMethod", "onUpdate", "startTracking" >>,
                  << "setProbeMethod", "onUpdate", "startTracking", "stopTracking" >> }
          /\ tr'[i].state = IF Len(tr'[i].calls) = 4 THEN "Stopped" ELSE "Tracking"
          /\ tr'[i].onUpdate
          /\ (i \in DOMAIN tr /\ tr[i].state = "Stopped") => tr'[i] = tr[i]
     /\ \A j \in JIDs :
          trackers'[j] # 0 =>
            /\ trackers'[j] \in DOMAIN tr'
            /\ tr'[trackers'[j]].state = "Tracking"]_vars

\* A contact was tracked, removed and added again: its first tracker is
\* Stopped and a later tracker of the same jid is the registered one.
C12_Witness ==
  \E i1, i2 \in DOMAIN tr :
    /\ i1 < i2
    /\ tr[i1].jid = tr[i2].jid
    /\ tr[i1].state = "Stopped"
    /\ tr[i2].state = "Tracking"
    /\ trackers[tr[i2].jid] = i2

\* C13: no 'tracker-update' is emitted by a tracker whose add-contact handler
\* has not yet emitted 'contact-added' (it is still at one of its awaits), so
\* that the requester's dashboard has the contact entry when the first
\* snapshot arrives.
C13_ContactAddedBeforeFirstUpdate ==
  \A k \in DOMAIN out :
    IsUpdate(out[k]) =>
      ~ \E r \in Slots :
          /\ reqs[r].pc \in {"pic", "name"}
          /\ reqs[r].tracker = out[k].tracker

\* C14: 'contact-added' is emitted only for a contact the registry holds a
\* tracker for, so that a dashboard never lists a contact that is not tracked.
C14_ContactAddedOnlyIfTracked ==
  \A k \in DOMAIN out :
    out[k].ev = "contact-added" => trackers[out[k].jid] # 0

\* C15: an add-contact request whose normalized jid is a key of the registry
\* emits one 'error', 'Already tracking this contact', to the requester and
\* changes nothing else: no verification is started, no tracker is
\* constructed, stopped or replaced, and no other event is emitted.
C15_AlreadyTracking ==
  [][\A s \in Sockets, n \in Numbers :
       (trackers[TargetJid(n)] # 0 /\ AddContact(s, n)) =>
          /\ out' = << Msg("error", s, TargetJid(n), NoNumber,
                           "Already tracking this contact", 0, 0) >>
          /\ reqs' = reqs
          /\ tr' = tr
          /\ trackers' = trackers
          /\ globalProbeMethod' = globalProbeMethod]_vars

\* Client "b" has just been refused a contact that is tracked, while every
\* slot holds an add-contact invocation at one of its awaits.
C15_Witness ==
  /\ Len(out) = 1
  /\ out[1].arg = "Already tracking this contact"
  /\ out[1].to = "b"
  /\ trackers[out[1].jid] # 0
  /\ tr[trackers[out[1].jid]].state = "Tracking"
  /\ \A r \in Slots : reqs[r].pc # "free"

OthersUnchanged(jid) ==
  /\ DOMAIN contacts' = DOMAIN contacts
  /\ \A k \in DOMAIN contacts \ {jid} : contacts'[k] = contacts[k]

\* C17: a 'tracker-update', 'profile-pic' or 'contact-name' for a jid creates
\* and removes no entry of the contacts map and changes no entry but that of
\* the jid; when the jid has no entry the map is unchanged.
C17_OtherContactsUnchanged ==
  [][/\ \A u \in Updates : OnTrackerUpdate(u) => OthersUnchanged(u.jid)
     /\ \A j \in JIDs, url \in {"null", "url"} :
          OnProfilePic([jid |-> j, url |-> url]) => OthersUnchanged(j)
     /\ \A j \in JIDs :
          OnContactName([jid |-> j, name |-> Alice]) => OthersUnchanged(j)]_vars

\* Two contacts are listed; one has recorded a data point and the other is
\* as 'contact-added' made it.
C17_Witness ==
  /\ DOMAIN contacts = JIDs
  /\ \E j \in JIDs :
       /\ Len(contacts[j].data) = 1
       /\ \A k \in JIDs \ {j} :
            /\ contacts[k].data = << >>
            /\ contacts[k].devices = << >>
            /\ contacts[k].presence = "null"
            /\ contacts[k].profilePic = "null"
            /\ contacts[k].contactName = contacts[k].displayNumber
====
